---- MODULE Spec2Model ----
(***************************************************************************)
(* rusty-react (src/src/lib.rs): the virtual DOM Node model, the Component *)
(* trait, and the two renderers render_node_to_dom / render_node_to_string *)
(* together with the exported entry point render(mount_point_id).          *)
(*                                                                         *)
(* The renderers are recursive functions; they are modelled twice:         *)
(*   - small-step, as a call stack of frames, one action per host document *)
(*     call or per call/return of the recursion, so that intermediate      *)
(*     states and aborts (panics of `.expect`) are visible;                *)
(*   - big-step, as RECURSIVE operators giving the result of a complete,   *)
(*     failure-free evaluation.                                            *)
(***************************************************************************)
EXTENDS Integers, Sequences, FiniteSets, TLC

VARIABLES
    host,            \* what web_sys::window() / window.document() find
    nodes,           \* the host document: node id -> DOM node record
    before,          \* the host document when the call was made (history)
    call,            \* which function was invoked: "none" before any call
    mount_point_id,  \* argument of render
    root,            \* the v_node handed to the renderer
    target,          \* the DOM node the root is rendered into (mount_element / parent)
    pc,              \* position inside render: "clear" or "walk"
    stack,           \* call stack of the recursive renderer, innermost last
    status,          \* "idle", "running", "done", "panicked"
    panic,           \* the panic message, "" when none
    ops,             \* log of the mutating host document calls (history)
    html             \* value returned by render_node_to_string

vars == <<host, nodes, before, call, mount_point_id, root, target, pc, stack,
          status, panic, ops, html>>

(***************************************************************************)
(* Bounds                                                                  *)
(***************************************************************************)
\* Largest number of children the mount element holds before a call.
MaxPrior == 2
\* Number of frames the call stack can hold before the recursion overflows it.
MaxDepth == 6

(***************************************************************************)
(* The VDOM: enum Node { Element(Element), Text(String), Component(..) }   *)
(***************************************************************************)
NoProps == <<>>

Text(text) == [type |-> "Text", text |-> text]

Element(tag_name, props, children) ==
    [type |-> "Element", tag_name |-> tag_name, props |-> props, children |-> children]

Component(c) == [type |-> "Component", component |-> c]

NoNode == [type |-> "None"]

\* impl Component for App: fn render(&self) -> Node
AppRender ==
    Element("div",
            ("class" :> "app-container") @@ ("data-rendered-by" :> "rusty-react"),
            << Element("h1", NoProps, << Text("Hello from a Rusty Component!") >>),
               Element("p", NoProps, << Text("This was rendered via a component trait.") >>) >>)

\* Further implementations of the public trait Component, as a user of the
\* crate can write them: one that returns an element, one whose render()
\* returns another Component node, one whose render() returns a Component
\* node resolving to itself.
BadgeRender == Element("span", ("class" :> "badge"), << Text("new") >>)
WrapperRender == Component("App")
LoopRender == Component("Loop")

Components == {"App", "Badge", "Wrapper", "Loop"}

\* v_component.0.render(): dynamic dispatch on the trait object.
ComponentRender(c) ==
    CASE c = "App" -> AppRender
      [] c = "Badge" -> BadgeRender
      [] c = "Wrapper" -> WrapperRender
      [] c = "Loop" -> LoopRender

\* let app_vdom = Node::Component(VComponent(Rc::new(root_component)));
AppVdom == Component("App")

\* The trees handed directly to the recursive renderers.
Roots ==
    { AppVdom,
      Component("Wrapper"),
      Component("Loop"),
      Text("<b>plain</b>"),
      Element("ul", ("id" :> "list") @@ ("title" :> "a \"b\""),
              << Text("x"), Component("Badge"), Text("y"), Component("Badge") >>),
      Element("section", NoProps,
              << Component("Wrapper"), Element("hr", NoProps, << >>) >>) }

(***************************************************************************)
(* The host document (web_sys): nodes is a sequence of DOM node records,   *)
(* a node's id is its index.  Node 1 is the document's body.               *)
(***************************************************************************)
DomElement(name, attrs, children, parent) ==
    [kind |-> "element", name |-> name, attrs |-> attrs, children |-> children,
     parent |-> parent]

DomText(data, parent) ==
    [kind |-> "text", name |-> data, attrs |-> NoProps, children |-> << >>,
     parent |-> parent]

Body == 1
Mount == 2

\* A page whose element with id "app" already holds k children.
PriorChild(j) ==
    IF j % 2 = 1 THEN DomElement("span", ("id" :> "old"), << >>, Mount)
                 ELSE DomText("stale", Mount)

Page(k) ==
    << DomElement("body", NoProps, << Mount >>, 0),
       DomElement("div", ("id" :> "app"), [j \in 1..k |-> Mount + j], Body) >>
    \o [j \in 1..k |-> PriorChild(j)]

RECURSIVE InDocument(_, _)
InDocument(d, n) ==
    \/ n = Body
    \/ d[n].parent # 0 /\ InDocument(d, d[n].parent)

HasId(d, n, id) ==
    /\ d[n].kind = "element"
    /\ InDocument(d, n)
    /\ "id" \in DOMAIN d[n].attrs
    /\ d[n].attrs["id"] = id

\* Mutation: a lookup that falls back to the body when no element has the id.
GetElementByIdOrBody(d, id) ==
    IF \E n \in DOMAIN d : HasId(d, n, id)
    THEN CHOOSE n \in DOMAIN d : HasId(d, n, id)
    ELSE Body

\* document.get_element_by_id(&mount_point_id): Option<Element>, 0 is None.
GetElementById(d, id) ==
    IF \E n \in DOMAIN d : HasId(d, n, id)
    THEN CHOOSE n \in DOMAIN d : HasId(d, n, id) /\ \A m \in DOMAIN d : HasId(d, m, id) => n <= m
    ELSE 0

Range(s) == {s[i] : i \in DOMAIN s}

\* Mutation: the mount element is not cleared.
KeepInnerHtml(d, n) == d

\* Mutation: only the first child is removed.
RemoveFirstChild(d, n) ==
    [m \in DOMAIN d |->
        IF m = n THEN [d[m] EXCEPT !.children = IF @ = << >> THEN @ ELSE Tail(@)]
        ELSE IF d[n].children # << >> /\ m = Head(d[n].children) THEN [d[m] EXCEPT !.parent = 0]
        ELSE d[m]]

\* mount_element.set_inner_html(""): every child is detached.
SetInnerHtmlEmpty(d, n) ==
    [m \in DOMAIN d |->
        IF m = n THEN [d[m] EXCEPT !.children = << >>]
        ELSE IF m \in Range(d[n].children) THEN [d[m] EXCEPT !.parent = 0]
        ELSE d[m]]

\* Mutation: the child is inserted before the children already there.
PrependChildTo(d, parent, child) ==
    [d EXCEPT ![parent].children = << child >> \o @, ![child].parent = parent]

\* parent.append_child(&child)
AppendChildTo(d, parent, child) ==
    [d EXCEPT ![parent].children = Append(@, child), ![child].parent = parent]

\* Mutation: the attribute set replaces the attributes set before it.
SetAttributeReplacing(d, n, key, value) ==
    [d EXCEPT ![n].attrs = (key :> value)]

\* dom_element.set_attribute(key, value)
SetAttributeOf(d, n, key, value) ==
    [d EXCEPT ![n].attrs = (key :> value) @@ @]

(***************************************************************************)
(* Log of the mutating host calls                                          *)
(***************************************************************************)
Op(op, node, child, key, value, ok) ==
    [op |-> op, node |-> node, child |-> child, key |-> key, value |-> value, ok |-> ok]

(***************************************************************************)
(* Panic messages of the .expect(..) calls                                 *)
(***************************************************************************)
\* (the source writes window between backquotes)
NoWindow == "no global window exists"
NoDocument == "should have a document on window"
MountPointNotFound(id) == "Mount point with id '" \o id \o "' not found"
FailedCreateElement == "Failed to create element"
FailedSetAttribute == "Failed to set attribute"
FailedAppendElement == "Failed to append element"
FailedAppendText == "Failed to append text node"
StackOverflow == "stack overflow"

HostFailures ==
    {FailedCreateElement, FailedSetAttribute, FailedAppendElement, FailedAppendText}

(***************************************************************************)
(* Call stack of the recursive renderers                                   *)
(***************************************************************************)
\* One activation of render_node_to_dom(v_node, document, parent) or of
\* render_node_to_string(v_node).
Frame(v_node, parent) ==
    [v_node |-> v_node, parent |-> parent, pc |-> "start", dom |-> 0,
     todo |-> IF v_node.type = "Element" THEN DOMAIN v_node.props ELSE {},
     i |-> 1, props_string |-> "", children_string |-> ""]

Top == stack[Len(stack)]
Pop(s) == SubSeq(s, 1, Len(s) - 1)
SetTop(s, f) == [s EXCEPT ![Len(s)] = f]

\* Every key of a props map of the trees above.
PropKeys == {"class", "data-rendered-by", "id", "title"}

MountPointIds == {"app", "missing"}
Hosts == {"ok", "no_window", "no_document"}

Init ==
    /\ host \in Hosts
    /\ \E k \in 0..MaxPrior : nodes = Page(k)
    /\ before = nodes
    /\ call = "none"
    /\ mount_point_id = ""
    /\ root = NoNode
    /\ target = 0
    /\ pc = "none"
    /\ stack = << >>
    /\ status = "idle"
    /\ panic = ""
    /\ ops = << >>
    /\ html = ""

\* Mutation: the failure is recorded but the call goes on (no .expect).
Ignore(msg) ==
    /\ status' = status
    /\ panic' = msg

Abort(msg) ==
    /\ status' = "panicked"
    /\ panic' = msg

\* A recursive call: the callee's frame goes on the stack, or the stack is
\* exhausted.
Call(s, f) ==
    IF Len(s) < MaxDepth
    THEN /\ stack' = Append(s, f)
         /\ UNCHANGED <<status, panic>>
    ELSE /\ stack' = s
         /\ Abort(StackOverflow)

\* The innermost activation returns (render_node_to_dom returns nothing).
ReturnFrom(s) ==
    /\ stack' = Pop(s)
    /\ status' = IF Len(s) = 1 THEN "done" ELSE status
    /\ panic' = panic

(***************************************************************************)
(* pub fn render(mount_point_id: String)                                   *)
(***************************************************************************)
\* Lines 122-134: build app_vdom, find window, document and mount element.
Render(id) ==
    /\ status = "idle"
    /\ call' = "render"
    /\ mount_point_id' = id
    /\ root' = AppVdom
    /\ before' = nodes
    /\ IF host = "no_window" THEN Abort(NoWindow) /\ UNCHANGED <<target, pc>>
       ELSE IF host = "no_document" THEN Abort(NoDocument) /\ UNCHANGED <<target, pc>>
       ELSE IF GetElementById(nodes, id) = 0
            THEN Abort(MountPointNotFound(id)) /\ UNCHANGED <<target, pc>>
       ELSE /\ target' = GetElementById(nodes, id)
            /\ pc' = "clear"
            /\ status' = "running"
            /\ panic' = panic
    /\ UNCHANGED <<host, nodes, stack, ops, html>>

\* Lines 136-138: clear the mount element, then call render_node_to_dom.
SetInnerHtml ==
    /\ status = "running" /\ call = "render" /\ pc = "clear"
    /\ nodes' = SetInnerHtmlEmpty(nodes, target)
    /\ ops' = Append(ops, Op("set_inner_html", target, 0, "", "", TRUE))
    /\ pc' = "walk"
    /\ stack' = << Frame(root, target) >>
    /\ UNCHANGED <<host, before, call, mount_point_id, root, target, status, panic, html>>

(***************************************************************************)
(* fn render_node_to_dom(v_node: &Node, document: &Document, parent)       *)
(***************************************************************************)
Elements(d) == {n \in DOMAIN d : d[n].kind = "element" /\ InDocument(d, n)}

\* A direct call on any tree and any element of the document.
CallRenderNodeToDom(v_node, parent) ==
    /\ status = "idle" /\ host = "ok"
    /\ call' = "render_node_to_dom"
    /\ root' = v_node
    /\ target' = parent
    /\ before' = nodes
    /\ pc' = "walk"
    /\ stack' = << Frame(v_node, parent) >>
    /\ status' = "running"
    /\ UNCHANGED <<host, nodes, mount_point_id, panic, ops, html>>

InDom ==
    /\ status = "running" /\ call \in {"render", "render_node_to_dom"} /\ pc = "walk"
    /\ stack # << >>

\* Node::Text: let text_node = document.create_text_node(text);
CreateTextNode ==
    /\ InDom /\ Top.v_node.type = "Text" /\ Top.pc = "start"
    /\ nodes' = Append(nodes, DomText(Top.v_node.text, 0))
    /\ ops' = Append(ops, Op("create_text_node", Len(nodes) + 1, 0, "", Top.v_node.text, TRUE))
    /\ stack' = SetTop(stack, [Top EXCEPT !.pc = "append", !.dom = Len(nodes) + 1])
    /\ UNCHANGED <<host, before, call, mount_point_id, root, target, pc, status, panic, html>>

\* Node::Element: document.create_element(&element.tag_name).expect(..)
CreateElement(ok) ==
    /\ InDom /\ Top.v_node.type = "Element" /\ Top.pc = "start"
    /\ IF ok
       THEN /\ nodes' = Append(nodes, DomElement(Top.v_node.tag_name, NoProps, << >>, 0))
            /\ ops' = Append(ops, Op("create_element", Len(nodes) + 1, 0, "", Top.v_node.tag_name, TRUE))
            /\ stack' = SetTop(stack, [Top EXCEPT !.pc = "attrs", !.dom = Len(nodes) + 1])
            /\ UNCHANGED <<status, panic>>
       ELSE /\ ops' = Append(ops, Op("create_element", 0, 0, "", Top.v_node.tag_name, FALSE))
            /\ Abort(FailedCreateElement)
            /\ UNCHANGED <<nodes, stack>>
    /\ UNCHANGED <<host, before, call, mount_point_id, root, target, pc, html>>

\* for (key, value) in &element.props { dom_element.set_attribute(key, value).expect(..) }
\* The HashMap yields its entries in an unspecified order.
SetAttribute(key, ok) ==
    /\ InDom /\ Top.v_node.type = "Element" /\ Top.pc = "attrs"
    /\ key \in Top.todo
    /\ ops' = Append(ops, Op("set_attribute", Top.dom, 0, key, Top.v_node.props[key], ok))
    /\ IF ok
       THEN /\ nodes' = SetAttributeOf(nodes, Top.dom, key, Top.v_node.props[key])
            /\ stack' = SetTop(stack, [Top EXCEPT !.todo = @ \ {key}])
            /\ UNCHANGED <<status, panic>>
       ELSE /\ Abort(FailedSetAttribute)
            /\ UNCHANGED <<nodes, stack>>
    /\ UNCHANGED <<host, before, call, mount_point_id, root, target, pc, html>>

\* parent.append_child(&text_node).expect(..), after which the call returns;
\* parent.append_child(&dom_element).expect(..), after which the children follow.
AppendChild(ok) ==
    /\ InDom
    /\ \/ Top.v_node.type = "Text" /\ Top.pc = "append"
       \/ Top.v_node.type = "Element" /\ Top.pc = "attrs" /\ Top.todo = {}
    /\ ops' = Append(ops, Op("append_child", Top.parent, Top.dom, "", "", ok))
    /\ IF ok
       THEN /\ nodes' = AppendChildTo(nodes, Top.parent, Top.dom)
            /\ IF Top.v_node.type = "Text"
               THEN ReturnFrom(stack)
               ELSE /\ stack' = SetTop(stack, [Top EXCEPT !.pc = "children"])
                    /\ UNCHANGED <<status, panic>>
       ELSE /\ Abort(IF Top.v_node.type = "Text" THEN FailedAppendText ELSE FailedAppendElement)
            /\ UNCHANGED <<nodes, stack>>
    /\ UNCHANGED <<host, before, call, mount_point_id, root, target, pc, html>>

\* for child in &element.children { render_node_to_dom(child, document, &dom_element); }
RenderChild ==
    /\ InDom /\ Top.v_node.type = "Element" /\ Top.pc = "children"
    /\ Top.i <= Len(Top.v_node.children)
    /\ Call(SetTop(stack, [Top EXCEPT !.i = @ + 1]),
            Frame(Top.v_node.children[Top.i], Top.dom))
    /\ UNCHANGED <<host, nodes, before, call, mount_point_id, root, target, pc, ops, html>>

\* Mutation: the rendered node goes under the root's target, not under the
\* parent of the Component node.
ResolveComponentAtTarget ==
    /\ InDom /\ Top.v_node.type = "Component" /\ Top.pc = "start"
    /\ Call(SetTop(stack, [Top EXCEPT !.pc = "return"]),
            Frame(ComponentRender(Top.v_node.component), target))
    /\ UNCHANGED <<host, nodes, before, call, mount_point_id, root, target, pc, ops, html>>

\* Mutation: a Component node gets a wrapper element of its own.
ResolveComponentWrapped ==
    /\ InDom /\ Top.v_node.type = "Component" /\ Top.pc = "start"
    /\ nodes' = AppendChildTo(Append(nodes, DomElement(Top.v_node.component, NoProps, << >>, 0)),
                              Top.parent, Len(nodes) + 1)
    /\ ops' = ops \o << Op("create_element", Len(nodes) + 1, 0, "", Top.v_node.component, TRUE),
                         Op("append_child", Top.parent, Len(nodes) + 1, "", "", TRUE) >>
    /\ Call(SetTop(stack, [Top EXCEPT !.pc = "return"]),
            Frame(ComponentRender(Top.v_node.component), Len(nodes) + 1))
    /\ UNCHANGED <<host, before, call, mount_point_id, root, target, pc, html>>

\* Node::Component: let rendered_node = v_component.0.render();
\*                  render_node_to_dom(&rendered_node, document, parent);
ResolveComponent ==
    /\ InDom /\ Top.v_node.type = "Component" /\ Top.pc = "start"
    /\ Call(SetTop(stack, [Top EXCEPT !.pc = "return"]),
            Frame(ComponentRender(Top.v_node.component), Top.parent))
    /\ UNCHANGED <<host, nodes, before, call, mount_point_id, root, target, pc, ops, html>>

\* The end of the Element arm (all children rendered) or of the Component arm.
Return ==
    /\ InDom
    /\ \/ Top.v_node.type = "Element" /\ Top.pc = "children" /\ Top.i > Len(Top.v_node.children)
       \/ Top.v_node.type = "Component" /\ Top.pc = "return"
    /\ ReturnFrom(stack)
    /\ UNCHANGED <<host, nodes, before, call, mount_point_id, root, target, pc, ops, html>>

(***************************************************************************)
(* fn render_node_to_string(v_node: &Node) -> String                       *)
(***************************************************************************)
CallRenderNodeToString(v_node) ==
    /\ status = "idle"
    /\ call' = "render_node_to_string"
    /\ root' = v_node
    /\ before' = nodes
    /\ pc' = "walk"
    /\ stack' = << Frame(v_node, 0) >>
    /\ status' = "running"
    /\ UNCHANGED <<host, nodes, mount_point_id, target, panic, ops, html>>

InString == status = "running" /\ call = "render_node_to_string" /\ stack # << >>

\* Mutation: the value is written without its quotes.
FormatPropUnquoted(key, value) == " " \o key \o "=" \o value

\* format!(" {}=\"{}\"", key, value)
FormatProp(key, value) == " " \o key \o "=\"" \o value \o "\""

\* format!("<{}{}>{}</{}>", tag_name, props_string, children_string, tag_name)
FormatElement(tag_name, props_string, children_string) ==
    "<" \o tag_name \o props_string \o ">" \o children_string \o "</" \o tag_name \o ">"

\* Mutation: a Component arm never takes the value its callee returned.
ReceiveElementOnly(f, value) ==
    IF f.v_node.type = "Element"
    THEN [f EXCEPT !.children_string = @ \o value]
    ELSE f

\* The caller's frame once the callee has returned value: an Element
\* collects it into children_string, a Component holds it as its own result.
Receive(f, value) ==
    IF f.v_node.type = "Element"
    THEN [f EXCEPT !.children_string = @ \o value]
    ELSE [f EXCEPT !.children_string = value, !.pc = "returned"]

\* The innermost activation returns value.
ReturnValue(s, value) ==
    /\ stack' = IF Len(s) = 1 THEN << >> ELSE SetTop(Pop(s), Receive(s[Len(s) - 1], value))
    /\ status' = IF Len(s) = 1 THEN "done" ELSE status
    /\ html' = IF Len(s) = 1 THEN value ELSE html
    /\ panic' = panic

\* Node::Text(text) => text.clone()
StringText ==
    /\ InString /\ Top.v_node.type = "Text"
    /\ ReturnValue(stack, Top.v_node.text)
    /\ UNCHANGED <<host, nodes, before, call, mount_point_id, root, target, pc, ops>>

\* for (key, value) in &element.props { props_string.push_str(..) }
StringProp(key) ==
    /\ InString /\ Top.v_node.type = "Element"
    /\ key \in Top.todo
    /\ stack' = SetTop(stack, [Top EXCEPT !.todo = @ \ {key},
                                          !.props_string = @ \o FormatProp(key, Top.v_node.props[key])])
    /\ UNCHANGED <<host, nodes, before, call, mount_point_id, root, target, pc, status,
                   panic, ops, html>>

\* element.children.iter().map(render_node_to_string).collect()
StringChild ==
    /\ InString /\ Top.v_node.type = "Element" /\ Top.todo = {}
    /\ Top.i <= Len(Top.v_node.children)
    /\ Call(SetTop(stack, [Top EXCEPT !.i = @ + 1]), Frame(Top.v_node.children[Top.i], 0))
    /\ UNCHANGED <<host, nodes, before, call, mount_point_id, root, target, pc, ops, html>>

StringElement ==
    /\ InString /\ Top.v_node.type = "Element" /\ Top.todo = {}
    /\ Top.i > Len(Top.v_node.children)
    /\ ReturnValue(stack, FormatElement(Top.v_node.tag_name, Top.props_string, Top.children_string))
    /\ UNCHANGED <<host, nodes, before, call, mount_point_id, root, target, pc, ops>>

\* Node::Component: let rendered_node = v_component.0.render();
\*                  render_node_to_string(&rendered_node)
StringComponent ==
    /\ InString /\ Top.v_node.type = "Component" /\ Top.pc = "start"
    /\ Call(SetTop(stack, [Top EXCEPT !.pc = "return"]),
            Frame(ComponentRender(Top.v_node.component), 0))
    /\ UNCHANGED <<host, nodes, before, call, mount_point_id, root, target, pc, ops, html>>

StringReturn ==
    /\ InString /\ Top.v_node.type = "Component" /\ Top.pc = "returned"
    /\ ReturnValue(stack, Top.children_string)
    /\ UNCHANGED <<host, nodes, before, call, mount_point_id, root, target, pc, ops>>

StringNext ==
    \/ StringText
    \/ \E key \in PropKeys : StringProp(key)
    \/ StringChild
    \/ StringElement
    \/ StringComponent
    \/ StringReturn

DomNext ==
    \/ CreateTextNode
    \/ \E ok \in BOOLEAN : CreateElement(ok)
    \/ \E key \in PropKeys, ok \in BOOLEAN : SetAttribute(key, ok)
    \/ \E ok \in BOOLEAN : AppendChild(ok)
    \/ RenderChild
    \/ ResolveComponent
    \/ Return

Next ==
    \/ \E id \in MountPointIds : Render(id)
    \/ SetInnerHtml
    \/ \E v \in Roots, parent \in Elements(nodes) : CallRenderNodeToDom(v, parent)
    \/ DomNext
    \/ \E v \in Roots : CallRenderNodeToString(v)
    \/ StringNext

Spec == Init /\ [][Next]_vars

\* Once invoked a renderer runs to completion: single-threaded, synchronous,
\* no suspension point.
FairSpec == Spec /\ WF_vars(SetInnerHtml \/ DomNext \/ StringNext)

(***************************************************************************)
(* The renderers as functions: the result of a complete evaluation in      *)
(* which no host call fails.                                               *)
(***************************************************************************)
RECURSIVE SetAttributes(_, _, _, _)
SetAttributes(d, n, props, keys) ==
    IF keys = {} THEN d
    ELSE LET key == CHOOSE k \in keys : TRUE
         IN SetAttributes(SetAttributeOf(d, n, key, props[key]), n, props, keys \ {key})

RECURSIVE RenderNodeToDom(_, _, _)
RECURSIVE RenderChildrenToDom(_, _, _, _)
RenderNodeToDom(v_node, d, parent) ==
    CASE v_node.type = "Text" ->
            AppendChildTo(Append(d, DomText(v_node.text, 0)), parent, Len(d) + 1)
      [] v_node.type = "Element" ->
            LET dom_element == Len(d) + 1
                created == Append(d, DomElement(v_node.tag_name, NoProps, << >>, 0))
                attributed == SetAttributes(created, dom_element, v_node.props, DOMAIN v_node.props)
                appended == AppendChildTo(attributed, parent, dom_element)
            IN RenderChildrenToDom(v_node.children, 1, appended, dom_element)
      [] v_node.type = "Component" ->
            RenderNodeToDom(ComponentRender(v_node.component), d, parent)

RenderChildrenToDom(children, i, d, parent) ==
    IF i > Len(children) THEN d
    ELSE RenderChildrenToDom(children, i + 1, RenderNodeToDom(children[i], d, parent), parent)

\* Every props_string the loop over the HashMap can build.
RECURSIVE PropsStrings(_, _)
PropsStrings(props, keys) ==
    IF keys = {} THEN {""}
    ELSE UNION { { FormatProp(k, props[k]) \o rest : rest \in PropsStrings(props, keys \ {k}) }
                 : k \in keys }

\* Every string render_node_to_string(v_node) can return.
RECURSIVE RenderNodeToString(_)
RECURSIVE ChildrenStrings(_, _)
RenderNodeToString(v_node) ==
    CASE v_node.type = "Text" -> {v_node.text}
      [] v_node.type = "Element" ->
            { FormatElement(v_node.tag_name, props_string, children_string) :
                props_string \in PropsStrings(v_node.props, DOMAIN v_node.props),
                children_string \in ChildrenStrings(v_node.children, 1) }
      [] v_node.type = "Component" ->
            RenderNodeToString(ComponentRender(v_node.component))

ChildrenStrings(children, i) ==
    IF i > Len(children) THEN {""}
    ELSE { first \o rest : first \in RenderNodeToString(children[i]),
                           rest \in ChildrenStrings(children, i + 1) }

(***************************************************************************)
(* Vocabulary of the properties                                            *)
(***************************************************************************)
\* No component's render() output transitively contains a Component node
\* resolving to that same component.
RECURSIVE WellFoundedFrom(_, _)
WellFoundedFrom(v_node, seen) ==
    CASE v_node.type = "Text" -> TRUE
      [] v_node.type = "Element" ->
            \A i \in DOMAIN v_node.children : WellFoundedFrom(v_node.children[i], seen)
      [] v_node.type = "Component" ->
            /\ v_node.component \notin seen
            /\ WellFoundedFrom(ComponentRender(v_node.component), seen \cup {v_node.component})
      [] OTHER -> FALSE

WellFounded(v_node) == WellFoundedFrom(v_node, {})

\* The trees obtained from v_node by replacing one Component node, at any
\* position, by the Node its render() returns.
RECURSIVE InlineOnce(_)
InlineOnce(v_node) ==
    CASE v_node.type = "Text" -> {}
      [] v_node.type = "Component" -> {ComponentRender(v_node.component)}
      [] v_node.type = "Element" ->
            UNION { { [v_node EXCEPT !.children[i] = w] : w \in InlineOnce(v_node.children[i]) }
                    : i \in DOMAIN v_node.children }

Entry(type, name, props, depth) ==
    [type |-> type, name |-> name, props |-> props, depth |-> depth]

\* Depth-first pre-order traversal of the fully resolved tree: its Element
\* and Text nodes with their depth below the parent rendered into.
RECURSIVE PreOrder(_, _)
RECURSIVE PreOrderAll(_, _, _)
PreOrder(v_node, depth) ==
    CASE v_node.type = "Text" -> << Entry("Text", v_node.text, NoProps, depth) >>
      [] v_node.type = "Element" ->
            << Entry("Element", v_node.tag_name, v_node.props, depth) >>
            \o PreOrderAll(v_node.children, 1, depth + 1)
      [] v_node.type = "Component" -> PreOrder(ComponentRender(v_node.component), depth)

PreOrderAll(children, i, depth) ==
    IF i > Len(children) THEN << >>
    ELSE PreOrder(children[i], depth) \o PreOrderAll(children, i + 1, depth)

\* The nodes of the document below node n (n included), in document order.
RECURSIVE DocumentOrder(_, _, _)
RECURSIVE DocumentOrderAll(_, _, _, _)
DocumentOrder(d, n, depth) ==
    << Entry(IF d[n].kind = "element" THEN "Element" ELSE "Text", d[n].name, d[n].attrs, depth) >>
    \o DocumentOrderAll(d, d[n].children, 1, depth + 1)

DocumentOrderAll(d, children, i, depth) ==
    IF i > Len(children) THEN << >>
    ELSE DocumentOrder(d, children[i], depth) \o DocumentOrderAll(d, children, i + 1, depth)

\* The nodes created since the call.
Created == (Len(before) + 1)..Len(nodes)

\* The children attached to the target since the call, and what hangs below them.
SelectSeq2(s, S) == SelectSeq(s, LAMBDA x : x \in S)
Attached == DocumentOrderAll(nodes, SelectSeq2(nodes[target].children, Created), 1, 1)

IsPrefix(s, t) == Len(s) <= Len(t) /\ s = SubSeq(t, 1, Len(s))

OpsWhere(P(_)) == {i \in DOMAIN ops : P(ops[i])}

DomCall == call \in {"render", "render_node_to_dom"}
HostFailed == status = "panicked" /\ panic \in HostFailures

(***************************************************************************)
(* C1: render(mount_point_id) with an id that no element of the host       *)
(* document carries ends in the MountPointNotFound failure and has made no *)
(* mutating host call: the document is what it was before the call.        *)
(***************************************************************************)
NoElementHasId(d, id) ==
    \A n \in DOMAIN d : "id" \notin DOMAIN d[n].attrs \/ d[n].attrs["id"] # id

C1_MountPointNotFound ==
    (call = "render" /\ host = "ok" /\ NoElementHasId(before, mount_point_id))
    => /\ status = "panicked"
       /\ panic = MountPointNotFound(mount_point_id)
       /\ ops = << >>
       /\ nodes = before
       /\ stack = << >>

C1_Witness ==
    /\ call = "render" /\ mount_point_id = "missing"
    /\ panic = "Mount point with id 'missing' not found"
    /\ Len(before[Mount].children) = MaxPrior

(***************************************************************************)
(* C2: whatever the mount element held, after a render that completes its  *)
(* children are exactly the nodes produced from the root tree and none of  *)
(* the prior children remains; for App that is one div holding h1 then p.  *)
(***************************************************************************)
C2_FullReplace ==
    (call = "render" /\ status = "done")
    => LET kids == nodes[target].children
       IN /\ DocumentOrderAll(nodes, kids, 1, 1) = PreOrder(root, 1)
          /\ Range(kids) \cap Range(before[target].children) = {}
          /\ \A n \in Range(before[target].children) : ~InDocument(nodes, n)
          /\ Len(kids) = 1
          /\ nodes[kids[1]].kind = "element" /\ nodes[kids[1]].name = "div"
          /\ [i \in 1..Len(nodes[kids[1]].children) |-> nodes[nodes[kids[1]].children[i]].name]
                = << "h1", "p" >>

C2_Witness ==
    /\ call = "render" /\ status = "done"
    /\ Len(before[target].children) = MaxPrior
    /\ Len(nodes[target].children) = 1

(***************************************************************************)
(* C3: component resolution is inline-transparent in both renderers: what  *)
(* a renderer produces for a tree T is what it produces for every tree in  *)
(* which one Component node of T, at any position, is replaced by the Node *)
(* its render() returns (a string being determined up to the order in      *)
(* which the props maps are iterated).                                     *)
(***************************************************************************)
\* The document the walk starts from.
Cleared == IF call = "render" THEN SetInnerHtmlEmpty(before, target) ELSE before

C3_InlineTransparent ==
    (status = "done" /\ WellFounded(root))
    => \A inlined \in InlineOnce(root) :
          /\ call = "render_node_to_string"
                => /\ html \in RenderNodeToString(inlined)
                   /\ RenderNodeToString(root) = RenderNodeToString(inlined)
          /\ DomCall => nodes = RenderNodeToDom(inlined, Cleared, target)

\* A Component node below the root, among text siblings, resolved in the DOM.
C3_Witness ==
    /\ status = "done" /\ call = "render_node_to_dom"
    /\ root.type = "Element" /\ Len(root.children) = 4
    /\ root.children[2].type = "Component"
    /\ InlineOnce(root) # {}

(***************************************************************************)
(* C4: tree shape preservation: a complete render_node_to_dom creates as   *)
(* many DOM elements as the resolved tree has Element nodes and as many    *)
(* DOM text nodes as it has Text nodes, none for a Component node, and     *)
(* every created node is appended exactly once.                            *)
(***************************************************************************)
CountType(entries, type) == Cardinality({i \in DOMAIN entries : entries[i].type = type})

IsCreate(o) == o.op \in {"create_element", "create_text_node"}
IsCreateElement(o) == o.op = "create_element"
IsCreateText(o) == o.op = "create_text_node"

Occurrences(d, n) ==
    Cardinality(UNION { { <<m, i>> : i \in {j \in DOMAIN d[m].children : d[m].children[j] = n} }
                        : m \in DOMAIN d })

C4_ShapePreserved ==
    (DomCall /\ status = "done" /\ WellFounded(root))
    => LET expected == PreOrder(root, 1)
       IN /\ Cardinality(OpsWhere(IsCreateElement)) = CountType(expected, "Element")
          /\ Cardinality(OpsWhere(IsCreateText)) = CountType(expected, "Text")
          /\ Cardinality(Created) = Len(expected)
          /\ Cardinality({n \in Created : nodes[n].kind = "element"}) = CountType(expected, "Element")
          /\ Cardinality({n \in Created : nodes[n].kind = "text"}) = CountType(expected, "Text")
          /\ \A n \in Created :
                /\ Occurrences(nodes, n) = 1
                /\ Cardinality({i \in DOMAIN ops : ops[i].op = "append_child" /\ ops[i].child = n}) = 1

\* A root that is a Component resolving to a Component: two Component
\* nodes, no DOM node for either.
C4_Witness ==
    /\ DomCall /\ status = "done"
    /\ root = Component("Wrapper")
    /\ Cardinality(Created) = 5

(***************************************************************************)
(* C5: attribute fidelity: the attributes of the DOM element created for   *)
(* an Element are exactly its props, each pair set once, whatever the      *)
(* order in which the map was iterated.                                    *)
(***************************************************************************)
C5_AttributeFidelity ==
    (DomCall /\ status \in {"running", "done", "panicked"} /\ pc = "walk" /\ WellFounded(root))
    => LET expected == PreOrder(root, 1)
       IN \A n \in Created :
            (nodes[n].kind = "element" /\ (nodes[n].parent # 0 \/ status = "done"))
            => LET props == expected[n - Len(before)].props
                   sets == {i \in DOMAIN ops : ops[i].op = "set_attribute" /\ ops[i].node = n}
               IN /\ nodes[n].attrs = props
                  /\ {<<ops[i].key, ops[i].value>> : i \in sets}
                        = {<<k, props[k]>> : k \in DOMAIN props}
                  /\ Cardinality(sets) = Cardinality(DOMAIN props)

\* An element with two props, set in the order title, id.
C5_Witness ==
    /\ DomCall /\ status = "done" /\ root.type = "Element" /\ DOMAIN root.props = {"id", "title"}
    /\ \E i, j \in DOMAIN ops :
          /\ i < j
          /\ ops[i].op = "set_attribute" /\ ops[i].key = "title" /\ ops[i].value = "a \"b\""
          /\ ops[j].op = "set_attribute" /\ ops[j].key = "id"

(***************************************************************************)
(* C6: render_node_to_string returns, for a Text, its text verbatim; for   *)
(* an Element, <tag, one key="value" per props entry in some order, >, the *)
(* children's renderings in order, </tag>; it never fails.  For            *)
(* Component(App) the result is one of the two strings of the test         *)
(* test_render_to_string_with_component.                                   *)
(***************************************************************************)
expected_html ==
    "<div class=\"app-container\" data-rendered-by=\"rusty-react\"><h1>Hello from a Rusty Component!</h1><p>This was rendered via a component trait.</p></div>"
expected_html_alt ==
    "<div data-rendered-by=\"rusty-react\" class=\"app-container\"><h1>Hello from a Rusty Component!</h1><p>This was rendered via a component trait.</p></div>"

C6_StringResult ==
    (call = "render_node_to_string" /\ WellFounded(root))
    => /\ status # "panicked"
       /\ status = "done"
            => /\ html \in RenderNodeToString(root)
               /\ root.type = "Text" => html = root.text
               /\ root.type = "Element"
                    => \E props_string \in PropsStrings(root.props, DOMAIN root.props),
                          children_string \in ChildrenStrings(root.children, 1) :
                            html = "<" \o root.tag_name \o props_string \o ">"
                                   \o children_string \o "</" \o root.tag_name \o ">"
               /\ root = AppVdom => html \in {expected_html, expected_html_alt}
               /\ root = Text("<b>plain</b>") => html = "<b>plain</b>"
               /\ (root.type = "Element" /\ root.tag_name = "ul")
                    => html \in
                        { "<ul id=\"list\" title=\"a \"b\"\">x<span class=\"badge\">new</span>y<span class=\"badge\">new</span></ul>",
                          "<ul title=\"a \"b\"\" id=\"list\">x<span class=\"badge\">new</span>y<span class=\"badge\">new</span></ul>" }

C6_Witness ==
    /\ call = "render_node_to_string" /\ status = "done"
    /\ root = AppVdom /\ html = expected_html_alt

(***************************************************************************)
(* C7 as stated: if a host call fails during render after the mount        *)
(* element was cleared, the mount element is empty once the call aborted.  *)
(***************************************************************************)
C7_EmptyAfterFailure ==
    (call = "render" /\ HostFailed) => nodes[target].children = << >>

(***************************************************************************)
(* C7 amended: ... the mount element is empty exactly when the failing     *)
(* call is one of the root element's own (its create_element, one of its   *)
(* set_attribute, its append_child); when a later call fails the mount     *)
(* element holds the root element and, below it, what was appended before  *)
(* the failure.  None of the prior children remains in either case.        *)
(***************************************************************************)
\* set_inner_html, create_element, one set_attribute per prop, append_child
RootCalls == 3 + Cardinality(DOMAIN PreOrder(root, 1)[1].props)

C7_EmptyUntilRootAppended ==
    (call = "render" /\ HostFailed)
    => /\ Range(nodes[target].children) \cap Range(before[target].children) = {}
       /\ IF Len(ops) <= RootCalls
          THEN nodes[target].children = << >>
          ELSE /\ Len(nodes[target].children) = 1
               /\ nodes[nodes[target].children[1]].name = PreOrder(root, 1)[1].name
               /\ IsPrefix(Attached, PreOrder(root, 1))

\* create_element("h1") fails: the div is already under the mount element.
C7_Witness ==
    /\ call = "render" /\ HostFailed /\ panic = FailedCreateElement
    /\ Len(before[target].children) = MaxPrior
    /\ Len(nodes[target].children) = 1
    /\ ops[Len(ops)].value = "h1"

(***************************************************************************)
(* C8: fail-fast: once a host call has failed, render_node_to_dom makes no *)
(* further host call and creates or appends no further node: the failed    *)
(* call is the last one, and the document stays as it was when it failed.  *)
(***************************************************************************)
SomeCallFailed == \E i \in DOMAIN ops : ~ops[i].ok

C8_FailFast ==
    /\ [](\A i \in DOMAIN ops : ~ops[i].ok => (i = Len(ops) /\ HostFailed))
    /\ [](DomCall /\ pc = "walk" /\ WellFounded(root)
            => /\ Cardinality(Created) = Cardinality(OpsWhere(IsCreate) \cap OpsWhere(LAMBDA o : o.ok))
               /\ IsPrefix(Attached, PreOrder(root, 1)))
    /\ [][SomeCallFailed => (ops' = ops /\ nodes' = nodes /\ stack' = stack)]_vars

\* append_child of the first text of the list fails: three siblings and a
\* closing sibling's subtree are never created.
C8_Witness ==
    /\ call = "render_node_to_dom" /\ HostFailed /\ panic = FailedAppendText
    /\ root.type = "Element" /\ Len(root.children) = 4
    /\ Len(Attached) = 1 /\ Cardinality(Created) = 2

(***************************************************************************)
(* C9: for a tree whose component resolution is well-founded, a renderer   *)
(* that was invoked runs to completion unless a host call fails.           *)
(***************************************************************************)
C9_Termination ==
    (status = "running" /\ WellFounded(root)) ~> (status = "done" \/ HostFailed)

\* Two nested component resolutions, completed.
C9_Witness ==
    /\ status = "done" /\ root = Component("Wrapper")
    /\ call \in {"render_node_to_dom", "render_node_to_string"}

(***************************************************************************)
(* C10: in every state of a render_node_to_dom walk the nodes attached     *)
(* under the target are, in document order, a prefix of the depth-first    *)
(* pre-order traversal of the resolved tree, each attached element with    *)
(* all of its attributes; a node is attached before the next one is        *)
(* created; a complete walk has attached the whole traversal.              *)
(***************************************************************************)
C10_PreOrderPrefix ==
    (DomCall /\ pc = "walk" /\ WellFounded(root))
    => LET expected == PreOrder(root, 1)
       IN /\ IsPrefix(Attached, expected)
          /\ \A n \in Created : nodes[n].parent = 0 => n = Len(nodes)
          /\ Len(Attached) >= Cardinality(Created) - 1
          /\ status = "done" => Attached = expected

\* The second Badge of the list is being built: x, span, new, y are attached.
C10_Witness ==
    /\ call = "render_node_to_dom" /\ status = "running"
    /\ root.type = "Element" /\ Len(root.children) = 4
    /\ Len(Attached) = 5 /\ Cardinality(Created) = 6
    /\ nodes[Len(nodes)].parent = 0 /\ nodes[Len(nodes)].attrs = NoProps

====
